---- MODULE Spec2Model ----
(***************************************************************************)
(* State-machine model of the AngeBOT natural-language-to-SQL assistant:   *)
(* the Streamlit front ends (app.py, frontend.py, frontend_new.py) and the *)
(* two chained LangChain pipelines of get_response (app.py, backend.py).   *)
(*                                                                         *)
(* Text values are sequences of tokens (a token is a word, one whitespace  *)
(* character or a code-fence marker), so that strip, join and split are    *)
(* modelled by what they do.  Usernames, passwords and other values that   *)
(* the code only compares for equality or truthiness are plain strings.    *)
(***************************************************************************)
EXTENDS Integers, Sequences, FiniteSets, TLC

VARIABLES
  ui,            \* which front end runs: "app", "frontend" or "frontend_new"
  db,            \* st.session_state.db: "unbound" or "bound"
  dbSchema,      \* the schema text the database currently reports
  users,         \* rows of the users table of AngeBot.db
  page,          \* st.session_state.page
  current_user,  \* st.session_state.current_user (NoUser: attribute not set)
  user_info,     \* st.session_state.user_info (<<>>: not set, <<r>>: set to r)
  model_name,    \* st.session_state.model_name (frontend.py)
  notice,        \* the message the last script run showed (st.error / st.success / exception)
  chat_history,  \* st.session_state.chat_history
  phase,         \* "idle", or "chain" while chain.invoke of get_response runs
  user_query,    \* the chat input of the turn in flight / of the last turn
  calls,         \* status of each pipeline call of the chain: todo, active, ok, err
  query,         \* output of the SQL chain (the synthesizer's text)
  schema_s,      \* schema text rendered into the synthesizer prompt
  schema_c,      \* schema text rendered into the composer prompt
  transport_s,   \* user_transport_mode rendered into the synthesizer prompt
  runArg,        \* the string passed to db.run
  dbresult,      \* what db.run returned
  composeIn,     \* the query / response pair rendered into the composer prompt
  composed,      \* the text the composer model call returned
  response,      \* what get_response returned to the page
  outcome,       \* how the last turn ended: none, answered, raised, caught
  hist0,         \* chat_history as it was when the last question was submitted
  invoked,       \* how often each pipeline call was started in the turn
  stub,          \* the stubbed model, when one is installed
  proj,          \* input and result of the transport projection (SpecProjection)
  san,           \* input and results of the sanitizer (SpecSanitize)
  conc           \* two sessions on the account page at once (SpecConcurrent)

vars ==
  << ui, db, dbSchema, users, page, current_user, user_info, model_name, notice,
     chat_history, phase, user_query, calls, query, schema_s, schema_c,
     transport_s, runArg, dbresult, composeIn, composed, response, outcome,
     hist0, invoked, stub, proj, san, conc >>

auxVars == << stub, proj, san, conc >>

sessionVars == << page, current_user, user_info, model_name >>

turnVars ==
  << phase, user_query, calls, query, schema_s, schema_c, transport_s,
     runArg, dbresult, composeIn, composed, response, outcome, hist0,
     invoked >>

-----------------------------------------------------------------------------
(* Bounds *)

\* A page render that can append to the history starts only below this length.
MaxHist == 3

-----------------------------------------------------------------------------
(* Text helpers *)

\* Python's None, as a text value no real text equals.
None == << "<None>" >>

\* The whitespace characters str.strip() removes.
Whitespace == { " ", "\n" }

\* The markdown code-fence marker (three backticks), one token.
Fence == "<fence>"

RECURSIVE LStrip(_)
LStrip(s) ==
  IF s # << >> /\ Head(s) \in Whitespace THEN LStrip(Tail(s)) ELSE s

RECURSIVE RStrip(_)
RStrip(s) ==
  IF s # << >> /\ s[Len(s)] \in Whitespace
    THEN RStrip(SubSeq(s, 1, Len(s) - 1))
    ELSE s

\* str.strip()
Strip(s) == RStrip(LStrip(s))

\* sep.join(list): the items with sep between consecutive ones.
RECURSIVE Join(_, _)
Join(sep, list) ==
  IF list = << >> THEN << >>
  ELSE IF Len(list) = 1 THEN list[1]
  ELSE list[1] \o sep \o Join(sep, Tail(list))

\* str.split(sep) for a one-token separator: always at least one item.
RECURSIVE Split(_, _)
Split(s, sep) ==
  IF \A i \in 1..Len(s) : s[i] # sep THEN << s >>
  ELSE LET i == CHOOSE k \in 1..Len(s) :
                  s[k] = sep /\ \A j \in 1..(k - 1) : s[j] # sep
       IN  << SubSeq(s, 1, i - 1) >> \o Split(SubSeq(s, i + 1, Len(s)), sep)

IsPrefix(s, t) == Len(s) <= Len(t) /\ SubSeq(t, 1, Len(s)) = s

Last(s) == s[Len(s)]

-----------------------------------------------------------------------------
(* The front ends and the values they handle *)

UIs == { "app", "frontend", "frontend_new" }

\* frontend.py and frontend_new.py import get_response from backend.py.
Grocery(u) == u \in { "frontend", "frontend_new" }

NoUser == "<unset>"

\* Chat inputs of one render: nothing typed (None), whitespace only, questions.
ChatInputs == { None, << " " >>, << "q1" >>, << " ", "q2" >> }

\* What the synthesizer model may return: a bare statement, a fenced one,
\* one with repeated and trailing whitespace, and a schema-changing one.
SqlClean == << "SELECT", " ", "1;" >>
SqlFenced == << Fence, "sql", "\n", "SELECT", " ", "1;", "\n", Fence >>
SqlSpaced == << "SELECT", " ", " ", "1;", "\n" >>
SqlDDL == << "DROP", " ", "t;" >>
RawOutputs == { SqlClean, SqlFenced, SqlSpaced, SqlDDL }

\* What the composer model may return.
Answers == { << "a1" >>, << "a2", "\n" >> }

Rows == << "rows" >>
ModelUnavailable == << "ModelUnavailable" >>
OperationalError == << "OperationalError" >>
AttributeError == << "AttributeError" >>
TypeError == << "TypeError" >>
NoNotice == << >>

SchemaBefore == "schema0"
SchemaAfter == "schema1"
NoSchema == "<unset>"

HumanMessage(c) == [ type |-> "HumanMessage", content |-> c, model_name |-> "-" ]
AIMessage(c) == [ type |-> "AIMessage", content |-> c, model_name |-> "-" ]
AiDict(c, m) == [ type |-> "dict", content |-> c, model_name |-> m ]

IsHuman(e) == e.type = "HumanMessage"
IsAssistant(e) == e.type \in { "AIMessage", "dict" }

Greeting == AIMessage(<< "Hello! I'm a SQL assistant." >>)
DefaultModel == "gpt-3.5-turbo"
ModelNames == { "gpt-3.5-turbo", "gpt-4" }
ErrorPrefix == << "Entschuldigung, es ist ein Fehler aufgetreten: " >>
NoDbMessage == << "Bitte verbinden Sie sich zuerst mit einer Datenbank." >>

\* user_query is not None and user_query.strip() != ""
Accepted(input) == input # None /\ Strip(input) # << >>

\* Number of positional parameters of the get_response a front end imports,
\* and number of arguments its call passes.
GetResponseParams(u) == IF u = "app" THEN 3 ELSE 5
GetResponseArgs(u) == IF u = "frontend" THEN 5 ELSE 3
CallBinds(u) == GetResponseArgs(u) = GetResponseParams(u)

-----------------------------------------------------------------------------
(* The chain of get_response *)

\* schema_s / llm_s: get_schema and the model call of the SQL chain;
\* schema_c: the schema lambda of get_response; run: db.run; llm_c: the
\* model call that composes the answer.
Calls == { "schema_s", "llm_s", "schema_c", "run", "llm_c" }

NotStarted == [ c \in Calls |-> "todo" ]

\* Mutant of ReadyApp: db.run does not wait for the SQL chain.
ReadyAppEager(c, st) ==
  CASE c = "schema_s" -> TRUE
    [] c = "llm_s"    -> st["schema_s"] = "ok"
    [] c = "schema_c" -> st["llm_s"] = "ok"
    [] c = "run"      -> TRUE
    [] c = "llm_c"    -> st["schema_c"] = "ok" /\ st["run"] = "ok"

\* When a step of the chain may start.  The steps of one assign(...) are
\* submitted together to the executor; a step piped after another starts
\* once that one has returned.
ReadyApp(c, st) ==
  CASE c = "schema_s" -> TRUE
    [] c = "llm_s"    -> st["schema_s"] = "ok"
    [] c = "schema_c" -> st["llm_s"] = "ok"
    [] c = "run"      -> st["llm_s"] = "ok"
    [] c = "llm_c"    -> st["schema_c"] = "ok" /\ st["run"] = "ok"

ReadyBackend(c, st) ==
  CASE c = "schema_s" -> TRUE
    [] c = "schema_c" -> TRUE
    [] c = "llm_s"    -> st["schema_s"] = "ok"
    [] c = "run"      -> st["llm_s"] = "ok" /\ st["schema_c"] = "ok"
    [] c = "llm_c"    -> st["run"] = "ok"

Ready(u, c, st) == IF u = "app" THEN ReadyApp(c, st) ELSE ReadyBackend(c, st)

\* The exception of a failed step leaves chain.invoke once no step is running
\* and every step already submitted beside it has finished.
RaiseReady(u, st) ==
  /\ \E c \in Calls : st[c] = "err"
  /\ \A c \in Calls : st[c] # "active"
  /\ \A c \in Calls : ~ (st[c] = "todo" /\ Ready(u, c, st))

\* The exception that leaves chain.invoke.
Raised(st) ==
  IF st["run"] = "err" THEN OperationalError ELSE ModelUnavailable

\* response=lambda vars: db.run(vars["query"]): the statement handed to db.run.
RunStatement(q) == q

\* The database rejects text that is not SQL (a code-fence marker in it).
Malformed(stmt) == \E i \in 1..Len(stmt) : stmt[i] = Fence

\* A statement that changes the schema when it runs.
IsDDL(stmt) == LStrip(stmt) # << >> /\ Head(LStrip(stmt)) = "DROP"

\* Mutant of TransportField: joined with "," as the store does.
TransportFieldComma(t) ==
  CASE t[1] = "list"    -> Join(<< "," >>, t[2])
    [] t[1] = "str"     -> t[2]
    [] t[1] = "missing" -> << >>

\* user_transport_mode of the SQL chain; transport is <<"list", l>>,
\* <<"str", s>> or <<"missing">> (the key is absent from user_info).
TransportField(t) ==
  CASE t[1] = "list"    -> Join(<< ", " >>, t[2])
    [] t[1] = "str"     -> t[2]
    [] t[1] = "missing" -> Join(<< ", " >>, << >>)

\* Mutant of ChainOutput: the text is stripped.
ChainOutputStripped(text) == Strip(text)

\* StrOutputParser: the text of the model's message, unchanged.
ChainOutput(text) == text

\* The history entry a page appends for the answer.
AssistantEntry(u, text, m) ==
  IF u = "frontend" THEN AiDict(text, m) ELSE AIMessage(text)

-----------------------------------------------------------------------------
(* The credential store and the account pages (frontend.py, frontend_new.py) *)

Usernames == { "", "max" }
Passwords == { "", "pw", "PW" }

\* st.multiselect("Transport Options", ...): the modes picked, in picking order.
TransportChoices ==
  { << >>, << << "Car" >> >>, << << "Bus" >>, << "Car" >> >> }

\* What the account form holds when its button is pressed.
Forms ==
  [ username : Usernames, password : Passwords, name : { "Max" },
    city : { "Berlin" }, preferences : { "Bio" },
    transport : TransportChoices, age : { 30 }, budget : { 50 } ]

\* Mutant of RowsNamed: the lookup finds nothing.
RowsNamedNone(rows, u) == { }

\* SELECT * FROM users WHERE username = ?
RowsNamed(rows, u) == { r \in rows : r.username = u }

\* Mutant of RowsMatching: the password is not compared.
RowsMatchingAnyPassword(rows, u, p) == { r \in rows : r.username = u }

\* SELECT * FROM users WHERE username = ? AND password = ?
RowsMatching(rows, u, p) ==
  { r \in rows : r.username = u /\ r.password = p }

\* The row INSERT INTO users stores for a form.
RowOf(f) ==
  [ username |-> f.username, password |-> f.password, name |-> f.name,
    city |-> f.city, preferences |-> f.preferences,
    transport |-> Join(<< "," >>, f.transport), age |-> f.age,
    budget |-> f.budget ]

\* user_info as the account page sets it from the form.
InfoOfForm(f) ==
  [ name |-> f.name, city |-> f.city, preferences |-> f.preferences,
    transport |-> f.transport, age |-> f.age, budget |-> f.budget ]

\* user_info as the login page loads it from a row.
InfoOfRow(r) ==
  [ name |-> r.name, city |-> r.city, preferences |-> r.preferences,
    transport |-> Split(r.transport, ","), age |-> r.age,
    budget |-> r.budget ]

-----------------------------------------------------------------------------
(* Initial state: the session state after the first script run *)

\* No pipeline call was started yet.
NoInvocations == [ c \in Calls |-> 0 ]

\* No second session is on the account page.
NoSessions == << >>

NoStub == [ on |-> FALSE, sql |-> SqlClean, text |-> << "a1" >> ]

FreshHistory(u) == IF u = "app" THEN << Greeting >> ELSE << >>

\* The page variables cleared when a question is submitted.
TurnReset ==
  /\ query' = None
  /\ schema_s' = NoSchema
  /\ schema_c' = NoSchema
  /\ transport_s' = None
  /\ runArg' = None
  /\ dbresult' = None
  /\ composeIn' = << >>
  /\ composed' = None
  /\ response' = None
  /\ invoked' = NoInvocations

SessionInit ==
  /\ db = IF ui = "app" THEN "unbound" ELSE "bound"
  /\ page = IF Grocery(ui) THEN "auth" ELSE "chatbot"
  /\ current_user = NoUser
  /\ user_info = << >>
  /\ model_name = DefaultModel
  /\ notice = NoNotice
  /\ chat_history = FreshHistory(ui)
  /\ phase = "idle"
  /\ user_query = None
  /\ calls = NotStarted
  /\ query = None
  /\ schema_s = NoSchema
  /\ schema_c = NoSchema
  /\ transport_s = None
  /\ runArg = None
  /\ dbresult = None
  /\ composeIn = << >>
  /\ composed = None
  /\ response = None
  /\ outcome = "none"
  /\ hist0 = FreshHistory(ui)
  /\ invoked = NoInvocations

Init ==
  /\ ui \in UIs
  /\ dbSchema = SchemaBefore
  /\ users = { }
  /\ SessionInit
  /\ stub = NoStub
  /\ proj = << >>
  /\ san = << >>
  /\ conc = NoSessions

-----------------------------------------------------------------------------
(* Session and account operations *)

\* Mutant of AddMessage: the message is put in front.
AddMessageFront(h, e) == << e >> \o h

\* st.session_state.chat_history.append(message)
AddMessage(h, e) == Append(h, e)

\* A new browser session: fresh session state, same database file.
NewSession ==
  /\ phase = "idle"
  /\ db' = IF ui = "app" THEN "unbound" ELSE "bound"
  /\ page' = IF Grocery(ui) THEN "auth" ELSE "chatbot"
  /\ current_user' = NoUser
  /\ user_info' = << >>
  /\ model_name' = DefaultModel
  /\ notice' = NoNotice
  /\ chat_history' = FreshHistory(ui)
  /\ user_query' = None
  /\ calls' = NotStarted
  /\ TurnReset
  /\ outcome' = "none"
  /\ hist0' = FreshHistory(ui)
  /\ UNCHANGED << ui, dbSchema, users, phase, auxVars >>

\* app.py: the Connect button of the sidebar.
Connect ==
  /\ ui = "app"
  /\ phase = "idle"
  /\ db' = "bound"
  /\ notice' = << "Connected to database!" >>
  /\ UNCHANGED << ui, dbSchema, users, sessionVars, chat_history, turnVars,
                  auxVars >>

\* Mutant of HandleAfterFailedInit: a failed initialization clears the handle.
HandleCleared(d) == "unbound"

\* init_database raised: the assignment to st.session_state.db is not
\* reached, the handle stays what it was.
HandleAfterFailedInit(d) == d

\* init_database raises (the database file cannot be opened).  In app.py the
\* Connect handler ends with the exception; in the grocery front ends the
\* script run ends before any page is drawn.
InitFails ==
  /\ phase = "idle"
  /\ db' = HandleAfterFailedInit(db)
  /\ notice' = OperationalError
  /\ UNCHANGED << ui, dbSchema, users, sessionVars, chat_history, turnVars,
                  auxVars >>

\* auth_page: the Create Account button.
ClickCreateAccount ==
  /\ Grocery(ui)
  /\ page = "auth"
  /\ page' = "personal_info"
  /\ notice' = NoNotice
  /\ UNCHANGED << ui, db, dbSchema, users, current_user, user_info,
                  model_name, chat_history, turnVars, auxVars >>

\* Mutant of PageAfterLogin: the chat page opens whatever the SELECT found.
PageAfterAnyLogin(found, pg) == "chatbot"

\* auth_page: st.session_state.page is assigned only when the SELECT
\* returned a row.
PageAfterLogin(found, pg) == IF found # { } THEN "chatbot" ELSE pg

\* auth_page: the Login button with the entered username and password.
Login(u, p) ==
  /\ Grocery(ui)
  /\ page = "auth"
  /\ LET found == RowsMatching(users, u, p)
     IN  IF found # { }
           THEN LET user == CHOOSE r \in found : TRUE
                IN  /\ current_user' = u
                    /\ user_info' = << InfoOfRow(user) >>
                    /\ notice' = << "Login successful." >>
                    /\ page' = PageAfterLogin(found, page)
           ELSE /\ notice' = << "Invalid username or password." >>
                /\ page' = PageAfterLogin(found, page)
                /\ UNCHANGED << current_user, user_info >>
  /\ UNCHANGED << ui, db, dbSchema, users, model_name, chat_history, turnVars,
                  auxVars >>

\* personal_info_page: the Create and Continue to Chatbot button.
CreateAccount(f) ==
  /\ Grocery(ui)
  /\ page = "personal_info"
  /\ IF f.username # "" /\ f.password # ""
       THEN IF RowsNamed(users, f.username) # { }
              THEN /\ notice' = << "Username already exists." >>
                   /\ UNCHANGED << users, current_user, user_info, page >>
              ELSE /\ current_user' = f.username
                   /\ user_info' = << InfoOfForm(f) >>
                   /\ users' = users \cup { RowOf(f) }
                   /\ page' = "chatbot"
                   /\ notice' = NoNotice
       ELSE /\ notice' = << "Username and password are required." >>
            /\ UNCHANGED << users, current_user, user_info, page >>
  /\ UNCHANGED << ui, db, dbSchema, model_name, chat_history, turnVars, auxVars >>

-----------------------------------------------------------------------------
(* The chat page *)

\* frontend.py: the model selectbox of the sidebar (a render with no input).
SelectModel(m) ==
  /\ ui = "frontend"
  /\ page = "chatbot"
  /\ phase = "idle"
  /\ model_name' = m
  /\ notice' = NoNotice
  /\ UNCHANGED << ui, db, dbSchema, users, page, current_user, user_info,
                  chat_history, turnVars, auxVars >>

\* app.py and frontend.py: one render of the chat page with chat input.
\* The question is appended before get_response is called; in app.py the
\* read of st.session_state.db raises when Connect was never pressed.
Chat(input) ==
  /\ ui \in { "app", "frontend" }
  /\ page = "chatbot"
  /\ phase = "idle"
  /\ Len(chat_history) < MaxHist
  /\ IF Accepted(input)
       THEN /\ chat_history' = AddMessage(chat_history, HumanMessage(input))
            /\ hist0' = chat_history
            /\ user_query' = input
            /\ calls' = NotStarted
            /\ TurnReset
            /\ IF db = "bound" /\ CallBinds(ui)
                 THEN /\ phase' = "chain"
                      /\ outcome' = "none"
                      /\ notice' = NoNotice
                 ELSE /\ phase' = "idle"
                      /\ outcome' = "raised"
                      /\ notice' = IF db = "bound" THEN TypeError
                                   ELSE AttributeError
       ELSE /\ notice' = NoNotice
            /\ UNCHANGED << chat_history, turnVars >>
  /\ UNCHANGED << ui, db, dbSchema, users, sessionVars, auxVars >>

\* frontend_new.py: one render of the chat page.  Only the append of the
\* question is under the input test; the call of get_response is not, and
\* it passes three arguments to backend.get_response, which takes five.
ChatNew(input) ==
  /\ ui = "frontend_new"
  /\ page = "chatbot"
  /\ phase = "idle"
  /\ Len(chat_history) < MaxHist
  /\ LET asked == IF Accepted(input)
                    THEN AddMessage(chat_history, HumanMessage(input))
                    ELSE chat_history
     IN  /\ hist0' = chat_history
         /\ user_query' = input
         /\ calls' = NotStarted
         /\ TurnReset
         /\ IF db = "bound"
              THEN IF CallBinds(ui)
                     THEN /\ chat_history' = asked
                          /\ phase' = "chain"
                          /\ outcome' = "none"
                          /\ notice' = NoNotice
                     ELSE /\ chat_history' =
                               AddMessage(asked, AIMessage(ErrorPrefix \o TypeError))
                          /\ phase' = "idle"
                          /\ outcome' = "caught"
                          /\ notice' = ErrorPrefix \o TypeError
              ELSE /\ chat_history' = AddMessage(asked, AIMessage(NoDbMessage))
                   /\ phase' = "idle"
                   /\ outcome' = "caught"
                   /\ notice' = NoDbMessage
  /\ UNCHANGED << ui, db, dbSchema, users, sessionVars, auxVars >>

-----------------------------------------------------------------------------
(* The steps of chain.invoke *)

\* Mutant of StatusAfterFailure: the failed call is scheduled again.
StatusRetried(st, c) == [ st EXCEPT ![c] = "todo" ]

\* A call of the chain raised: chain.invoke has no retry wrapper, the
\* exception ends the call for good.
StatusAfterFailure(st, c) == [ st EXCEPT ![c] = "err" ]

\* A step of the chain starts: its inputs are taken from the chain's dict.
BeginCall(c) ==
  /\ phase = "chain"
  /\ calls[c] = "todo"
  /\ Ready(ui, c, calls)
  /\ calls' = [ calls EXCEPT ![c] = "active" ]
  /\ invoked' = [ invoked EXCEPT ![c] = @ + 1 ]
  /\ transport_s' =
       IF c = "llm_s" /\ Grocery(ui)
         THEN TransportField(<< "list", user_info[1].transport >>)
         ELSE transport_s
  /\ runArg' = IF c = "run" THEN RunStatement(query) ELSE runArg
  /\ composeIn' =
       IF c = "llm_c"
         THEN << [ query |-> query, response |-> dbresult, schema |-> schema_c ] >>
         ELSE composeIn
  /\ UNCHANGED << ui, db, dbSchema, users, sessionVars, notice, chat_history,
                  phase, user_query, query, schema_s, schema_c, dbresult,
                  composed, response, outcome, hist0, auxVars >>

\* db.get_table_info() returns.
EndSchema(c) ==
  /\ c \in { "schema_s", "schema_c" }
  /\ phase = "chain"
  /\ calls[c] = "active"
  /\ calls' = [ calls EXCEPT ![c] = "ok" ]
  /\ schema_s' = IF c = "schema_s" THEN dbSchema ELSE schema_s
  /\ schema_c' = IF c = "schema_c" THEN dbSchema ELSE schema_c
  /\ UNCHANGED << ui, db, dbSchema, users, sessionVars, notice, chat_history,
                  phase, user_query, query, transport_s, runArg, dbresult,
                  composeIn, composed, response, outcome, hist0, invoked, auxVars >>

\* The model call of the SQL chain returns text.
EndSynth(out) ==
  /\ phase = "chain"
  /\ calls["llm_s"] = "active"
  /\ calls' = [ calls EXCEPT !["llm_s"] = "ok" ]
  /\ query' = ChainOutput(out)
  /\ UNCHANGED << ui, db, dbSchema, users, sessionVars, notice, chat_history,
                  phase, user_query, schema_s, schema_c, transport_s, runArg,
                  dbresult, composeIn, composed, response, outcome, hist0,
                  invoked, auxVars >>

\* The model call of the SQL chain fails (network, key, quota).
FailSynth ==
  /\ phase = "chain"
  /\ calls["llm_s"] = "active"
  /\ calls' = StatusAfterFailure(calls, "llm_s")
  /\ UNCHANGED << ui, db, dbSchema, users, sessionVars, notice, chat_history,
                  phase, user_query, query, schema_s, schema_c, transport_s,
                  runArg, dbresult, composeIn, composed, response, outcome,
                  hist0, invoked, auxVars >>

\* db.run executes the statement and returns its rows as text.
RunOk ==
  /\ phase = "chain"
  /\ calls["run"] = "active"
  /\ ~ Malformed(runArg)
  /\ calls' = [ calls EXCEPT !["run"] = "ok" ]
  /\ dbresult' = Rows
  /\ dbSchema' = IF IsDDL(runArg) THEN SchemaAfter ELSE dbSchema
  /\ UNCHANGED << ui, db, users, sessionVars, notice, chat_history, phase,
                  user_query, query, schema_s, schema_c, transport_s, runArg,
                  composeIn, composed, response, outcome, hist0, invoked, auxVars >>

\* db.run raises: the database rejects the statement (it is not SQL, or it
\* names a table or column that does not exist).
RunFails ==
  /\ phase = "chain"
  /\ calls["run"] = "active"
  /\ calls' = StatusAfterFailure(calls, "run")
  /\ UNCHANGED << ui, db, dbSchema, users, sessionVars, notice, chat_history,
                  phase, user_query, query, schema_s, schema_c, transport_s,
                  runArg, dbresult, composeIn, composed, response, outcome,
                  hist0, invoked, auxVars >>

\* The composing model call returns text.
EndCompose(a) ==
  /\ phase = "chain"
  /\ calls["llm_c"] = "active"
  /\ calls' = [ calls EXCEPT !["llm_c"] = "ok" ]
  /\ composed' = a
  /\ UNCHANGED << ui, db, dbSchema, users, sessionVars, notice, chat_history,
                  phase, user_query, query, schema_s, schema_c, transport_s,
                  runArg, dbresult, composeIn, response, outcome, hist0,
                  invoked, auxVars >>

\* The composing model call fails.
FailCompose ==
  /\ phase = "chain"
  /\ calls["llm_c"] = "active"
  /\ calls' = StatusAfterFailure(calls, "llm_c")
  /\ UNCHANGED << ui, db, dbSchema, users, sessionVars, notice, chat_history,
                  phase, user_query, query, schema_s, schema_c, transport_s,
                  runArg, dbresult, composeIn, composed, response, outcome,
                  hist0, invoked, auxVars >>

\* get_response returns: the page shows the answer and appends it.
TurnReturn ==
  /\ phase = "chain"
  /\ calls["llm_c"] = "ok"
  /\ response' = ChainOutput(composed)
  /\ chat_history' = AddMessage(chat_history, AssistantEntry(ui, response', model_name))
  /\ outcome' = "answered"
  /\ phase' = "idle"
  /\ notice' = NoNotice
  /\ UNCHANGED << ui, db, dbSchema, users, sessionVars, user_query, calls,
                  query, schema_s, schema_c, transport_s, runArg, dbresult,
                  composeIn, composed, hist0, invoked, auxVars >>

\* get_response raises.  app.py and frontend.py let the exception end the
\* script run; frontend_new.py catches it and appends its text as an answer.
TurnRaise ==
  /\ phase = "chain"
  /\ RaiseReady(ui, calls)
  /\ phase' = "idle"
  /\ IF ui = "frontend_new"
       THEN /\ chat_history' =
                 AddMessage(chat_history, AIMessage(ErrorPrefix \o Raised(calls)))
            /\ outcome' = "caught"
            /\ notice' = ErrorPrefix \o Raised(calls)
       ELSE /\ outcome' = "raised"
            /\ notice' = Raised(calls)
            /\ UNCHANGED chat_history
  /\ UNCHANGED << ui, db, dbSchema, users, sessionVars, user_query, calls,
                  query, schema_s, schema_c, transport_s, runArg, dbresult,
                  composeIn, composed, response, hist0, invoked, auxVars >>

-----------------------------------------------------------------------------
(* Specification *)

Next ==
  \/ NewSession
  \/ Connect
  \/ InitFails
  \/ ClickCreateAccount
  \/ \E u \in Usernames, p \in Passwords : Login(u, p)
  \/ \E f \in Forms : CreateAccount(f)
  \/ \E m \in ModelNames : SelectModel(m)
  \/ \E i \in ChatInputs : Chat(i)
  \/ \E i \in ChatInputs : ChatNew(i)
  \/ \E c \in Calls : BeginCall(c)
  \/ \E c \in Calls : EndSchema(c)
  \/ \E out \in RawOutputs : EndSynth(out)
  \/ FailSynth
  \/ RunOk
  \/ RunFails
  \/ \E a \in Answers : EndCompose(a)
  \/ FailCompose
  \/ TurnReturn
  \/ TurnRaise

Spec == Init /\ [][Next]_vars

-----------------------------------------------------------------------------
(* Specification with a stubbed model: both model calls return known text *)

Stubs == [ on : { TRUE }, sql : RawOutputs, text : Answers ]

InitStub ==
  /\ ui \in UIs
  /\ dbSchema = SchemaBefore
  /\ users = { }
  /\ SessionInit
  /\ stub \in Stubs
  /\ proj = << >>
  /\ san = << >>
  /\ conc = NoSessions

NextStub ==
  \/ NewSession
  \/ Connect
  \/ InitFails
  \/ ClickCreateAccount
  \/ \E u \in Usernames, p \in Passwords : Login(u, p)
  \/ \E f \in Forms : CreateAccount(f)
  \/ \E m \in ModelNames : SelectModel(m)
  \/ \E i \in ChatInputs : Chat(i)
  \/ \E i \in ChatInputs : ChatNew(i)
  \/ \E c \in Calls : BeginCall(c)
  \/ \E c \in Calls : EndSchema(c)
  \/ EndSynth(stub.sql)
  \/ RunOk
  \/ RunFails
  \/ EndCompose(stub.text)
  \/ TurnReturn
  \/ TurnRaise

SpecStub == InitStub /\ [][NextStub]_vars

-----------------------------------------------------------------------------
(* Specification of the transport projection of the SQL chain *)

MaxModes == 3

Modes == { << "Auto" >>, << "Fahrrad" >>, << "Bus" >>, << "Walking" >> }

ModeLists == UNION { [ 1..n -> Modes ] : n \in 0..MaxModes }

\* The transport entry of user_info: a list of modes, one mode as a plain
\* string, or no entry.
TransportValues ==
  { << "list", l >> : l \in ModeLists } \cup { << "str", m >> : m \in Modes }
    \cup { << "missing" >> }

InitProjection ==
  /\ ui = "frontend"
  /\ dbSchema = SchemaBefore
  /\ users = { }
  /\ SessionInit
  /\ stub = NoStub
  /\ proj \in { << t >> : t \in TransportValues }
  /\ san = << >>
  /\ conc = NoSessions

\* The user_transport_mode lambda runs on the user_info it is given.
Project ==
  /\ Len(proj) = 1
  /\ proj' = << proj[1], TransportField(proj[1]) >>
  /\ UNCHANGED << ui, db, dbSchema, users, sessionVars, notice, chat_history,
                  turnVars, stub, san, conc >>

NextProjection == Project

SpecProjection == InitProjection /\ [][NextProjection]_vars

-----------------------------------------------------------------------------
(* Specification of the sanitizer of synthesizer output *)

\* Longest enumerated input of the sanitizer, in tokens.
MaxTokens == 5

\* The language tag of an opening fence, in either case.
SqlTags == { "sql", "SQL" }

\* The tokens inputs are made of: the fence, its tag, whitespace, a word.
SanTokens == { Fence } \cup SqlTags \cup Whitespace \cup { "x" }

\* The two inputs named as examples, token by token.
ExampleSpaced ==
  << "SELECT", " ", " ", " ", "1", "\n", "\n", "FROM", " ", " ", "t" >>

ExampleSpacedClean == << "SELECT", " ", "1", " ", "FROM", " ", "t" >>

SanInputs ==
  UNION { [ 1..n -> SanTokens ] : n \in 0..MaxTokens }
    \cup { SqlFenced, ExampleSpaced }

\* Step 1: an opening fence with the sql tag is removed.
DropOpeningFence(s) ==
  IF Len(s) >= 2 /\ s[1] = Fence /\ s[2] \in SqlTags
    THEN SubSeq(s, 3, Len(s))
    ELSE s

\* Step 2: a trailing fence is removed.
DropTrailingFence(s) ==
  IF s # << >> /\ Last(s) = Fence THEN SubSeq(s, 1, Len(s) - 1) ELSE s

\* Mutant of RemoveFences: only the first fence left is removed.
RECURSIVE RemoveFirstFence(_)
RemoveFirstFence(s) ==
  IF s = << >> THEN s
  ELSE IF Head(s) = Fence THEN Tail(s)
  ELSE << Head(s) >> \o RemoveFirstFence(Tail(s))

\* Step 3: every fence left anywhere is removed.
RECURSIVE RemoveFences(_)
RemoveFences(s) ==
  IF s = << >> THEN s
  ELSE IF Head(s) = Fence THEN RemoveFences(Tail(s))
  ELSE << Head(s) >> \o RemoveFences(Tail(s))

\* Mutant of CollapseWhitespace: only repeated blanks are collapsed, a line
\* break stays.
RECURSIVE CollapseBlanks(_)
CollapseBlanks(s) ==
  IF s = << >> THEN s
  ELSE IF Head(s) = " "
    THEN << " " >> \o CollapseBlanks(LStrip(Tail(s)))
    ELSE << Head(s) >> \o CollapseBlanks(Tail(s))

\* Step 5: every run of whitespace becomes one space.
RECURSIVE CollapseWhitespace(_)
CollapseWhitespace(s) ==
  IF s = << >> THEN s
  ELSE IF Head(s) \in Whitespace
    THEN << " " >> \o CollapseWhitespace(LStrip(Tail(s)))
    ELSE << Head(s) >> \o CollapseWhitespace(Tail(s))

\* The sanitizer: steps 1 to 5 in order (step 4 is the trim).
Sanitize(s) ==
  CollapseWhitespace(Strip(RemoveFences(DropTrailingFence(DropOpeningFence(s)))))

InitSanitize ==
  /\ ui = "app"
  /\ dbSchema = SchemaBefore
  /\ users = { }
  /\ SessionInit
  /\ stub = NoStub
  /\ proj = << >>
  /\ san \in { << s >> : s \in SanInputs }
  /\ conc = NoSessions

\* The sanitizer runs on synthesizer output.
SanitizeOutput ==
  /\ Len(san) = 1
  /\ san' = << san[1], Sanitize(san[1]) >>
  /\ UNCHANGED << ui, db, dbSchema, users, sessionVars, notice, chat_history,
                  turnVars, stub, proj, conc >>

\* The sanitizer runs on its own result.
SanitizeAgain ==
  /\ Len(san) = 2
  /\ san' = << san[1], san[2], Sanitize(san[2]) >>
  /\ UNCHANGED << ui, db, dbSchema, users, sessionVars, notice, chat_history,
                  turnVars, stub, proj, conc >>

NextSanitize == SanitizeOutput \/ SanitizeAgain

SpecSanitize == InitSanitize /\ [][NextSanitize]_vars

-----------------------------------------------------------------------------
(* Specification of two sessions creating an account at the same time *)

Sessions == { 1, 2 }

Other(k) == 3 - k

IntegrityError == << "IntegrityError" >>

\* The forms the two sessions submit: the same username, a password each.
ConcForms == { f \in Forms : f.username = "max" /\ f.password # "" }

\* A session on the account page that pressed the button with form f.
Clicked(f) ==
  [ pc |-> "clicked", form |-> f, current_user |-> NoUser, user_info |-> << >>,
    page |-> "personal_info", notice |-> NoNotice ]

InitConcurrent ==
  /\ ui = "frontend"
  /\ dbSchema = SchemaBefore
  /\ users = { }
  /\ SessionInit
  /\ stub = NoStub
  /\ proj = << >>
  /\ san = << >>
  /\ conc \in { << Clicked(f), Clicked(g) >> : f \in ConcForms, g \in ConcForms }

\* SELECT * FROM users WHERE username = ?: the session's own connection sees
\* the committed rows.  A row found ends the handler with st.error.
ConcSelect(k) ==
  /\ conc[k].pc = "clicked"
  /\ conc' =
       IF RowsNamed(users, conc[k].form.username) # { }
         THEN [ conc EXCEPT ![k].pc = "rejected",
                            ![k].notice = << "Username already exists." >> ]
         ELSE [ conc EXCEPT ![k].pc = "checked" ]
  /\ UNCHANGED << ui, db, dbSchema, users, sessionVars, notice, chat_history,
                  turnVars, stub, proj, san >>

\* current_user and user_info are assigned before the INSERT.
ConcSetSession(k) ==
  /\ conc[k].pc = "checked"
  /\ conc' = [ conc EXCEPT ![k].pc = "set",
                           ![k].current_user = conc[k].form.username,
                           ![k].user_info = << InfoOfForm(conc[k].form) >> ]
  /\ UNCHANGED << ui, db, dbSchema, users, sessionVars, notice, chat_history,
                  turnVars, stub, proj, san >>

\* INSERT INTO users: the PRIMARY KEY on username rejects a second row with
\* IntegrityError, which ends the script run.
ConcInsert(k) ==
  /\ conc[k].pc = "set"
  /\ conc[Other(k)].pc # "inserted"
  /\ conc' =
       IF RowsNamed(users, conc[k].form.username) # { }
         THEN [ conc EXCEPT ![k].pc = "raised", ![k].notice = IntegrityError ]
         ELSE [ conc EXCEPT ![k].pc = "inserted" ]
  /\ UNCHANGED << ui, db, dbSchema, users, sessionVars, notice, chat_history,
                  turnVars, stub, proj, san >>

\* INSERT INTO users while the other connection holds the write lock for
\* longer than the busy timeout: OperationalError ends the script run.
ConcInsertLocked(k) ==
  /\ conc[k].pc = "set"
  /\ conc[Other(k)].pc = "inserted"
  /\ conc' = [ conc EXCEPT ![k].pc = "raised", ![k].notice = OperationalError ]
  /\ UNCHANGED << ui, db, dbSchema, users, sessionVars, notice, chat_history,
                  turnVars, stub, proj, san >>

\* conn.commit(): the row becomes visible to the other connection.
ConcCommit(k) ==
  /\ conc[k].pc = "inserted"
  /\ users' = users \cup { RowOf(conc[k].form) }
  /\ conc' = [ conc EXCEPT ![k].pc = "committed" ]
  /\ UNCHANGED << ui, db, dbSchema, sessionVars, notice, chat_history,
                  turnVars, stub, proj, san >>

\* st.session_state.page = "chatbot"
ConcSetPage(k) ==
  /\ conc[k].pc = "committed"
  /\ conc' = [ conc EXCEPT ![k].pc = "done", ![k].page = "chatbot" ]
  /\ UNCHANGED << ui, db, dbSchema, users, sessionVars, notice, chat_history,
                  turnVars, stub, proj, san >>

NextConcurrent ==
  \/ \E k \in Sessions : ConcSelect(k)
  \/ \E k \in Sessions : ConcSetSession(k)
  \/ \E k \in Sessions : ConcInsert(k)
  \/ \E k \in Sessions : ConcInsertLocked(k)
  \/ \E k \in Sessions : ConcCommit(k)
  \/ \E k \in Sessions : ConcSetPage(k)

SpecConcurrent == InitConcurrent /\ [][NextConcurrent]_vars

-----------------------------------------------------------------------------
(* Claims *)

\* The pipeline stages whose failure the claims speak of.
FailingStages == { "llm_s", "run", "llm_c" }

StageFailed == \E c \in FailingStages : calls[c] = "err"

\* C1: after a turn in which the synthesizer model call, the query executor
\* or the composer model call failed, the conversation history is what it
\* was before the question was submitted.
C1_HistoryUnchangedOnFailure ==
  (phase = "idle" /\ StageFailed) => chat_history = hist0

\* The entries the turns of this session added (app.py starts with a greeting).
TurnEntries ==
  SubSeq(chat_history, Len(FreshHistory(ui)) + 1, Len(chat_history))

\* C2: whenever no turn is in flight the history holds only completed turns:
\* the entries added by turns come in pairs, a user question immediately
\* followed by an answer the composer returned.
C2_OnlyCompletedTurns ==
  phase = "idle" =>
    /\ Len(TurnEntries) % 2 = 0
    /\ \A i \in 1..Len(TurnEntries) :
         IF i % 2 = 1
           THEN IsHuman(TurnEntries[i])
           ELSE /\ IsAssistant(TurnEntries[i])
                /\ TurnEntries[i].content \in Answers

\* C3: a successful turn leaves the history as it was when the question was
\* submitted plus exactly two entries at the end, the question and then the
\* composer's answer; and no step of a session removes, reorders or rewrites
\* an entry (the history before a step is a prefix of the history after it).
C3_AppendOnly ==
  [][ /\ NewSession \/ IsPrefix(chat_history, chat_history')
      /\ (phase = "chain" /\ phase' = "idle" /\ outcome' = "answered") =>
           /\ Len(chat_history') = Len(hist0) + 2
           /\ SubSeq(chat_history', 1, Len(hist0)) = hist0
           /\ chat_history'[Len(hist0) + 1] = HumanMessage(user_query)
           /\ IsAssistant(chat_history'[Len(hist0) + 2])
           /\ chat_history'[Len(hist0) + 2].content = composed
    ]_vars

\* C3 witness: a turn answered on top of a history that earlier turns extended.
C3_Witness ==
  /\ outcome = "answered"
  /\ Len(hist0) > Len(FreshHistory(ui))
  /\ Len(chat_history) = Len(hist0) + 2

\* No code-fence marker, no leading or trailing whitespace, no run of more
\* than one whitespace character.
Clean(s) ==
  /\ \A i \in 1..Len(s) : s[i] # Fence
  /\ s # << >> => (s[1] \notin Whitespace /\ s[Len(s)] \notin Whitespace)
  /\ \A i \in 1..(Len(s) - 1) :
       ~ (s[i] \in Whitespace /\ s[i + 1] \in Whitespace)

\* C4: the statement passed to db.run is sanitized, whatever the synthesizer
\* returned.
C4_RunStatementSanitized == calls["run"] # "todo" => Clean(runArg)

\* C5: fixed stage order: the schema is fetched before the synthesizer model
\* call starts; db.run starts only after the synthesizer returned, on the
\* statement from its output; the composer model call starts only after
\* db.run returned, and its prompt holds that statement and db.run's result.
C5_StageOrder ==
  /\ calls["llm_s"] # "todo" =>
       (calls["schema_s"] = "ok" /\ schema_s # NoSchema)
  /\ calls["run"] # "todo" =>
       (calls["llm_s"] = "ok" /\ query # None /\ runArg = query)
  /\ calls["llm_c"] # "todo" =>
       /\ calls["run"] = "ok"
       /\ Len(composeIn) = 1
       /\ composeIn[1].query = runArg
       /\ composeIn[1].response = dbresult
       /\ dbresult = Rows

\* C5 witness: the composer model call is in progress in a turn.
C5_Witness == phase = "chain" /\ calls["llm_c"] = "active"

\* C6: when the database rejects the statement the turn does not crash: the
\* error text is the execution result in the composer prompt, the composer
\* model call is made and the turn produces an answer.
C6_ExecutorFailurePassThrough ==
  (phase = "idle" /\ calls["run"] = "err") =>
    /\ outcome = "answered"
    /\ calls["llm_c"] = "ok"
    /\ Len(composeIn) = 1
    /\ composeIn[1].response = OperationalError

\* The rows of the store that carry a username.
Holding(rows, u) == { r \in rows : r.username = u }

AccountStateUnchanged ==
  /\ users' = users
  /\ current_user' = current_user
  /\ user_info' = user_info
  /\ page' = page

\* C7 as claimed: for any username, the first account creation with it
\* succeeds and stores one row; a later attempt with the same username shows
\* an error and leaves the store, current_user, user_info and the page alone.
C7_DuplicateAccountRejection ==
  [][ \A f \in Forms :
        CreateAccount(f) =>
          IF Holding(users, f.username) = { }
            THEN /\ Cardinality(Holding(users', f.username)) = 1
                 /\ page' = "chatbot"
            ELSE /\ AccountStateUnchanged
                 /\ notice' = << "Username already exists." >>
    ]_vars

\* C7 as amended: the first creation with a username succeeds when the
\* username and the password are both non-empty, and then stores exactly one
\* row; an attempt with an empty username or password, or with a username
\* the store already holds, shows an error and leaves the store,
\* current_user, user_info and the page alone.
C7_DuplicateAccountRejectionNonEmpty ==
  [][ \A f \in Forms :
        CreateAccount(f) =>
          IF f.username = "" \/ f.password = ""
            THEN /\ AccountStateUnchanged
                 /\ notice' = << "Username and password are required." >>
            ELSE IF Holding(users, f.username) = { }
                   THEN /\ Cardinality(Holding(users', f.username)) = 1
                        /\ Cardinality(users') = Cardinality(users) + 1
                        /\ current_user' = f.username
                        /\ page' = "chatbot"
                   ELSE /\ AccountStateUnchanged
                        /\ notice' = << "Username already exists." >>
    ]_vars

\* C7 witness: a second creation with a stored username was just rejected.
C7_Witness ==
  /\ notice = << "Username already exists." >>
  /\ page = "personal_info"
  /\ Cardinality(Holding(users, "max")) = 1

\* C8: login succeeds exactly when the store holds a row with the entered
\* username and password; then the profile is loaded from that row and the
\* page becomes the chatbot page; otherwise an error is shown and the page,
\* current_user, user_info and the store are unchanged.
C8_LoginExactMatch ==
  [][ \A u \in Usernames, p \in Passwords :
        Login(u, p) =>
          LET hit == { r \in users : r.username = u /\ r.password = p }
          IN  IF hit # { }
                THEN /\ page' = "chatbot"
                     /\ current_user' = u
                     /\ users' = users
                     /\ Len(user_info') = 1
                     /\ \E r \in hit :
                          /\ user_info'[1].name = r.name
                          /\ user_info'[1].city = r.city
                          /\ user_info'[1].preferences = r.preferences
                          /\ Join(<< "," >>, user_info'[1].transport) = r.transport
                          /\ user_info'[1].age = r.age
                          /\ user_info'[1].budget = r.budget
                ELSE /\ AccountStateUnchanged
                     /\ notice' = << "Invalid username or password." >>
    ]_vars

\* C8 witness: a login with stored credentials has just succeeded.
C8_Witness ==
  /\ notice = << "Login successful." >>
  /\ page = "chatbot"
  /\ current_user = "max"
  /\ \E r \in users : r.username = "max"

\* C9: the transport field of the synthesizer prompt is the modes joined with
\* ", " in their order when transport is a list, and the value itself when
\* it is not a list.
C9_TransportProjection ==
  Len(proj) = 2 =>
    LET t == proj[1]
        out == proj[2]
    IN  /\ t[1] = "list" =>
             LET n == Len(t[2])
             IN  /\ Len(out) = IF n = 0 THEN 0 ELSE 2 * n - 1
                 /\ \A i \in 1..n : out[2 * i - 1] = t[2][i][1]
                 /\ \A i \in 1..(n - 1) : out[2 * i] = ", "
        /\ t[1] = "str" => out = t[2]

\* C9 witness: the list Auto, Fahrrad was projected.
C9_Witness ==
  proj = << << "list", << << "Auto" >>, << "Fahrrad" >> >> >>,
            << "Auto", ", ", "Fahrrad" >> >>

\* C10: with a stubbed model, the output of an answered turn is the composer
\* stub's text verbatim and that text is the content of the entry appended
\* last; the output is fixed by the stub alone, so two runs agree.
C10_OutputIsComposerText ==
  outcome = "answered" =>
    /\ query = stub.sql
    /\ response = stub.text
    /\ IsAssistant(Last(chat_history))
    /\ Last(chat_history).content = stub.text

\* C10 witness: a turn of the grocery page answered with the stub's text.
C10_Witness ==
  /\ outcome = "answered"
  /\ ui = "frontend"
  /\ stub.text = << "a2", "\n" >>
  /\ stub.sql = SqlClean

\* The calls of the chain that are running.
ActiveCalls == { c \in Calls : calls[c] = "active" }

\* C11: at no point of a turn are two pipeline calls (schema fetch, model
\* call, database execution) in progress at the same time.
C11_NoOverlap == Cardinality(ActiveCalls) <= 1

\* C12: in one turn the synthesizer call, the query execution and the
\* composer call are each started at most once; after a turn failed no
\* stage starts until a new question is submitted, and a turn starts only
\* with the question that a render appended.
C12_NoRetry ==
  [][ /\ \A c \in Calls : invoked'[c] <= 1
      /\ (phase = "idle" /\ outcome \in { "raised", "caught" }) =>
           \A c \in Calls : invoked'[c] <= invoked[c]
      /\ (phase = "idle" /\ phase' = "chain") =>
           /\ Len(chat_history') = Len(chat_history) + 1
           /\ IsHuman(Last(chat_history'))
           /\ Last(chat_history').content = user_query' ]_vars

\* C12 witness: a turn ended with the failure of the query execution, after
\* the synthesizer and the execution were started once.
C12_Witness ==
  /\ phase = "idle"
  /\ outcome = "raised"
  /\ calls["run"] = "err"
  /\ invoked["llm_s"] = 1
  /\ invoked["run"] = 1
  /\ invoked["llm_c"] = 0

\* The tokens of a text that are neither whitespace nor a fence, in order.
RECURSIVE Words(_)
Words(s) ==
  IF s = << >> THEN s
  ELSE IF Head(s) \in Whitespace \cup { Fence } THEN Words(Tail(s))
  ELSE << Head(s) >> \o Words(Tail(s))

\* The text with its opening sql fence and every fence token taken out.
Unfenced(s) ==
  LET body == IF Len(s) >= 2 /\ s[1] = Fence /\ s[2] \in SqlTags
                THEN SubSeq(s, 3, Len(s)) ELSE s
  IN  SelectSeq(body, LAMBDA t : t # Fence)

\* Position of the k-th token of s that is not whitespace.
WordAt(s, k) ==
  CHOOSE i \in 1..Len(s) :
    /\ s[i] \notin Whitespace
    /\ Cardinality({ j \in 1..i : s[j] \notin Whitespace }) = k

\* For each pair of consecutive words of s: is there whitespace between them?
Gaps(s) ==
  [ k \in 1..(Len(Words(s)) - 1) |-> WordAt(s, k + 1) > WordAt(s, k) + 1 ]

\* C13: sanitizing an already sanitized string gives the same string.
C13_SanitizeIdempotent == Len(san) = 3 => san[3] = san[2]

\* C13 witness: the fenced statement was sanitized twice.
C13_Witness == san = << SqlFenced, SqlClean, SqlClean >>

\* C14: for every input the sanitizer returns the input without its fence
\* tokens, without leading or trailing whitespace, and with one space where
\* the input had a run of whitespace; the fenced SELECT 1; gives SELECT 1;
\* and the widely spaced SELECT 1 FROM t gives single spaces.
C14_SanitizeResult ==
  Len(san) >= 2 =>
    LET in == Unfenced(san[1])
        out == san[2]
    IN  /\ \A i \in 1..Len(out) : out[i] # Fence /\ out[i] # "\n"
        /\ out # << >> => out[1] # " " /\ Last(out) # " "
        /\ \A i \in 1..(Len(out) - 1) : ~ (out[i] = " " /\ out[i + 1] = " ")
        /\ Words(out) = Words(in)
        /\ Gaps(out) = Gaps(in)
        /\ san[1] = SqlFenced => out = SqlClean
        /\ san[1] = ExampleSpaced => out = ExampleSpacedClean

\* C14 witness: the widely spaced statement was sanitized.
C14_Witness == Len(san) >= 2 /\ san[1] = ExampleSpaced /\ san[2] = ExampleSpacedClean

\* C15: a pipeline call starts only while the session holds a database
\* handle, and a bound handle is never unbound again: only a new browser
\* session starts without one.
C15_ConnectedStays ==
  [][ /\ (\E c \in Calls : invoked'[c] > invoked[c]) =>
           db = "bound" /\ db' = "bound"
      /\ phase' = "chain" => db' = "bound"
      /\ (db = "bound" /\ db' # "bound") => NewSession ]_vars

\* C15 witness: in app.py a turn was answered on a bound handle and a later
\* initialization failed, the handle still bound.
C15_Witness ==
  /\ ui = "app"
  /\ db = "bound"
  /\ outcome = "answered"
  /\ notice = OperationalError

\* C16: after a login, the session profile equals what was entered when the
\* account was created: the same transport selection (the empty one
\* included), name, city, preferences, age and budget.
C16_ProfileRoundTrip ==
  (Grocery(ui) /\ notice = << "Login successful." >>) =>
    \A f \in Forms :
      (f.username = current_user /\ RowOf(f) \in users) =>
        user_info = << InfoOfForm(f) >>

\* C18: the page of the grocery front ends is auth, personal_info or
\* chatbot; whenever it is chatbot the profile and the user are set, and the
\* chat page is entered only by a login that found a row or by an account
\* creation that stored one.
C18_PageRouting ==
  [][ Grocery(ui) =>
        /\ page' \in { "auth", "personal_info", "chatbot" }
        /\ page' = "chatbot" => user_info' # << >> /\ current_user' # NoUser
        /\ (page # "chatbot" /\ page' = "chatbot") =>
             \/ \E u \in Usernames, p \in Passwords :
                  Login(u, p) /\ RowsMatching(users, u, p) # { }
             \/ \E f \in Forms :
                  CreateAccount(f) /\ users' = users \cup { RowOf(f) }
                    /\ users' # users ]_vars

\* C18 witness: the chat page of a grocery front end was entered by a login.
C18_Witness ==
  /\ Grocery(ui)
  /\ page = "chatbot"
  /\ notice = << "Login successful." >>
  /\ user_info # << >>

\* C19: a render of the chat page with no input, or with empty or
\* whitespace-only input, starts no pipeline call and leaves the history as
\* it was, in app.py, frontend.py and frontend_new.py.
C19_BlankRenderIsNoTurn ==
  [][ \A i \in ChatInputs :
        (~ Accepted(i) /\ (Chat(i) \/ ChatNew(i))) =>
          /\ chat_history' = chat_history
          /\ phase' = "idle"
          /\ \A c \in Calls : invoked'[c] <= invoked[c] ]_vars

\* C20: the schema text rendered into the composer prompt of a turn is the
\* schema text that was rendered into the synthesizer prompt of that turn,
\* whatever statement the synthesizer generated.
C20_SchemaConsistent ==
  calls["llm_c"] # "todo" => composeIn # << >> /\ composeIn[1].schema = schema_s

\* The handler of session k has ended.
Finished(k) == conc[k].pc \in { "rejected", "raised", "done" }

\* Session k holds the account it created and shows the chat page.
Won(k) ==
  /\ conc[k].current_user = conc[k].form.username
  /\ conc[k].user_info = << InfoOfForm(conc[k].form) >>
  /\ conc[k].page = "chatbot"

\* Session k is as it was before the button was pressed.
Untouched(k) ==
  /\ conc[k].current_user = NoUser
  /\ conc[k].user_info = << >>
  /\ conc[k].page = "personal_info"

\* C17: when two sessions create an account with the same username, under
\* any interleaving the store ends with exactly one row for the username,
\* one session ends with current_user and user_info set and the chat page
\* selected, and the state of the other session is unchanged.
C17_ConcurrentCreation ==
  (conc # NoSessions /\ \A k \in Sessions : Finished(k)) =>
    /\ Cardinality(Holding(users, "max")) = 1
    /\ \E k \in Sessions : Won(k) /\ Untouched(Other(k))

====
